---- MODULE Spec2Model ----
(***************************************************************************)
(* The two notebooks of the repository, FittingExercise and Testing, as a  *)
(* state machine over the shared notebook namespace, one action per        *)
(* statement (or per cell where a cell is one statement).                  *)
(*                                                                         *)
(* Numbers.  Every decimal literal of the source has at most three         *)
(* decimals; a quantity q is held as the integer 1000*q ("milli-units").   *)
(* A result of numpy's true division is held as a fraction [n, d] in       *)
(* lowest terms with d >= 0, where d = 0 encodes the IEEE specials:        *)
(* [1,0] = +inf, [-1,0] = -inf, [0,0] = nan.                               *)
(***************************************************************************)
EXTENDS Integers, Sequences, FiniteSets, TLC

VARIABLES
    entry,                 \* the notebook the user runs: "FittingExercise" or "Testing"
    seaborn,               \* environment: is the seaborn package importable
    pc,                    \* the statement about to execute
    sns,                   \* name sns: "unbound", "False" or "module"
    figsize,               \* figure size set by In[2], <<0,0>> before
    experiments,           \* name experiments (<<>> while unbound)
    i,                     \* name i, bound by the loop of FittingExercise In[4]
    it,                    \* how many experiments that loop's enumerate has yielded
    figure,                \* the pyplot figure the plotting loop draws on
    starting_guess,        \* the ParameterSet names of the namespace
    optimized_parameters,
    standard_errors,
    true_params,
    discrepancy,           \* name discrepancy: array, then ParameterSet
    k,                     \* how many items the loop of Testing In[2] has yielded
    origin,                \* for each name, the source line of the statement
                           \* that bound it last, 0 while unbound
    stdout,                \* what the run has displayed
    table,                 \* the DataFrame of Testing In[3]
    sim,                   \* the reactor simulation in progress
    res                    \* the residual evaluation in progress

vars == <<entry, seaborn, pc, sns, figsize, experiments, i, it, figure,
          starting_guess, optimized_parameters, standard_errors, true_params,
          discrepancy, k, origin, stdout, table, sim, res>>

----------------------------------------------------------------------------
(* Data types of FittingExercise In[3] and In[5].                          *)

Fields == <<"logA", "Ea", "dH", "dS">>

ParameterSet(a, b, c, d) == [logA |-> a, Ea |-> b, dH |-> c, dS |-> d]

ExperimentData(T, cA_start, times, cA) ==
    [T |-> T, cA_start |-> cA_start, times |-> times, cA |-> cA]

\* array(ps): a named tuple read as a sequence, in field order.
AsArray(ps) == <<ps.logA, ps.Ea, ps.dH, ps.dS>>

\* ParameterSet(*a): a sequence packed positionally.
FromArray(a) == ParameterSet(a[1], a[2], a[3], a[4])

\* ps._asdict().items(): the (key, value) pairs in field order.
Items(ps) == [j \in 1..4 |-> <<Fields[j], ps[Fields[j]]>>]

----------------------------------------------------------------------------
(* numpy arithmetic of Testing In[2].                                      *)

Abs(x) == IF x < 0 THEN -x ELSE x

Sign(x) == IF x > 0 THEN 1 ELSE IF x < 0 THEN -1 ELSE 0

RECURSIVE GCD(_, _)
GCD(a, b) == IF b = 0 THEN a ELSE GCD(b, a % b)

\* x / y of two finite numbers, IEEE: x/0 is +-inf, 0/0 is nan (numpy warns
\* and does not raise).
TrueDivide(x, y) ==
    IF y = 0 THEN [n |-> Sign(x), d |-> 0]
    ELSE LET g == GCD(Abs(x), Abs(y))
         IN  [n |-> (Sign(y) * x) \div g, d |-> Abs(y) \div g]

\* a - b of two arrays, elementwise.
ArraySub(a, b) == [j \in 1..Len(a) |-> a[j] - b[j]]

\* a / b of two arrays, elementwise.
ArrayDiv(a, b) == [j \in 1..Len(a) |-> TrueDivide(a[j], b[j])]

IsFinite(q) == q.d # 0

----------------------------------------------------------------------------
(* FittingExercise In[4] and In[5]: the literals, in milli-units.          *)

Times10 == <<10000, 20000, 30000, 40000, 50000, 60000, 70000, 80000, 90000, 100000>>

\* (A catalog whose second record lost its last observation.)
CatalogMutant ==
    << ExperimentData(298150, 10000, Times10,
          <<8649, 7441, 7141, 6366, 6215, 5990, 5852, 5615, 5481, 5644>>),
       ExperimentData(308150, 10000, Times10,
          <<7230, 6073, 5452, 5317, 5121, 4998, 4951, 4978, 5015>>),
       ExperimentData(323150, 10000, Times10,
          <<5137, 4568, 4548, 4461, 4382, 4525, 4483, 4565, 4459, 4635>>) >>

Catalog ==
    << ExperimentData(298150, 10000, Times10,
          <<8649, 7441, 7141, 6366, 6215, 5990, 5852, 5615, 5481, 5644>>),
       ExperimentData(308150, 10000, Times10,
          <<7230, 6073, 5452, 5317, 5121, 4998, 4951, 4978, 5015, 5036>>),
       ExperimentData(323150, 10000, Times10,
          <<5137, 4568, 4548, 4461, 4382, 4525, 4483, 4565, 4459, 4635>>) >>

StartingGuess == ParameterSet(6000, 45000, -10000, -50000)

\* ParameterSet(0,0,0,0), the value In[5] gives optimized_parameters and
\* standard_errors.
Placeholder == ParameterSet(0, 0, 0, 0)

\* Testing In[2].
TrueParams == ParameterSet(6900, 49000, -13000, -42000)

\* "{:.0f}".format(T): T to zero decimals, ties to the even integer
\* (2.5 -> 2, 0.5 -> 0, -1.5 -> -2).
Format0f(T) ==
    LET q == T \div 1000
        r == T % 1000
    IN  IF r > 500 THEN q + 1
        ELSE IF r < 500 THEN q
        ELSE IF q % 2 = 0 THEN q ELSE q + 1

----------------------------------------------------------------------------
(* Output.  Testing In[1] runs FittingExercise under %%capture, so what    *)
(* FittingExercise prints is displayed only when it is the notebook run.   *)

Captured == entry = "Testing"

Emit(line) == IF Captured THEN stdout ELSE Append(stdout, line)

NoFigure == [lines |-> <<>>, ylim |-> "auto", ylabel |-> "", xlabel |-> "",
             legend |-> <<>>]

EmptyArray == <<>>

\* The four pyplot steps of plot_experiment(e), as changes of the figure.
FigStart(fig, e) ==
    [fig EXCEPT !.lines = Append(@, [x |-> <<0>>, y |-> <<e.cA_start>>, fmt |-> "ko",
                                     labelled |-> FALSE, label |-> 0])]

FigSeries(fig, e) ==
    [fig EXCEPT !.lines = Append(@, [x |-> e.times, y |-> e.cA, fmt |-> ":o",
                                     labelled |-> TRUE, label |-> Format0f(e.T)])]

FigAxes(fig) ==
    [fig EXCEPT !.ylim = "from 0", !.ylabel = "C_A (mol/L)", !.xlabel = "time (s)"]

FigLegend(fig) ==
    [fig EXCEPT !.legend =
        LET labelled == SelectSeq(fig.lines, LAMBDA l : l.labelled)
        IN  [j \in 1..Len(labelled) |-> labelled[j].label]]

\* The figure after plot_experiment has run for the first n experiments.
RECURSIVE FigureAfter(_)
FigureAfter(n) ==
    IF n = 0 THEN NoFigure
    ELSE FigLegend(FigAxes(FigSeries(FigStart(FigureAfter(n - 1), Catalog[n]),
                                     Catalog[n])))

\* The namespace of a kernel in which no cell has run.
FreshNamespace ==
    /\ sns = "unbound"
    /\ figsize = <<0, 0>>
    /\ experiments = <<>>
    /\ i = 0
    /\ it = 0
    /\ figure = NoFigure
    /\ starting_guess = Placeholder
    /\ optimized_parameters = Placeholder
    /\ standard_errors = Placeholder
    /\ true_params = Placeholder
    /\ discrepancy = EmptyArray
    /\ k = 0
    /\ origin = [name \in {"experiments", "i", "starting_guess", "optimized_parameters",
                           "standard_errors", "true_params", "discrepancy"} |-> 0]
    /\ stdout = <<>>
    /\ table = <<>>

\* No simulation and no residual evaluation: the notebooks start none.
NoSim == [kf |-> 0, kr |-> 0, cA_start |-> 0, times |-> <<>>, t |-> 0, cA |-> 0,
          predicted |-> <<>>]

NoRes == [experiments |-> <<>>, predicted |-> <<>>, pending |-> {},
          completed |-> <<>>, slots |-> <<>>, gathered |-> FALSE, vector |-> <<>>]

Init ==
    /\ entry \in {"FittingExercise", "Testing"}
    /\ seaborn \in BOOLEAN
    /\ pc = IF entry = "Testing" THEN "T1" ELSE "F1"
    /\ FreshNamespace
    /\ sim = NoSim
    /\ res = NoRes

----------------------------------------------------------------------------
(* FittingExercise.                                                        *)

\* In[1]: the matplotlib magic and the imports.
F_Imports ==
    /\ pc = "F1"
    /\ pc' = "F2"
    /\ UNCHANGED <<it, sim, res, entry, seaborn, sns, figsize, experiments, i, figure,
                   starting_guess, optimized_parameters, standard_errors,
                   true_params, discrepancy, k, origin, stdout, table>>

\* In[2], seaborn imports: the else block.
F_SeabornPresent ==
    /\ pc = "F2"
    /\ seaborn
    /\ sns' = "module"
    /\ figsize' = <<2, 2>>
    /\ pc' = "F3"
    /\ UNCHANGED <<it, sim, res, entry, seaborn, experiments, i, figure,
                   starting_guess, optimized_parameters, standard_errors,
                   true_params, discrepancy, k, origin, stdout, table>>

\* In[2], ImportError: the except block.
F_SeabornMissing ==
    /\ pc = "F2"
    /\ ~seaborn
    /\ sns' = "False"
    /\ stdout' = Emit([text |-> "install seaborn"])
    /\ figsize' = <<3, 3>>
    /\ pc' = "F3"
    /\ UNCHANGED <<it, sim, res, entry, seaborn, experiments, i, figure,
                   starting_guess, optimized_parameters, standard_errors,
                   true_params, discrepancy, k, origin, table>>

\* In[3]: ExperimentData and plot_experiment are defined.
F_Define ==
    /\ pc = "F3"
    /\ pc' = "F4"
    /\ UNCHANGED <<it, sim, res, entry, seaborn, sns, figsize, experiments, i, figure,
                   starting_guess, optimized_parameters, standard_errors,
                   true_params, discrepancy, k, origin, stdout, table>>

\* In[4]: experiments = [...].
F_Experiments ==
    /\ pc = "F4"
    /\ experiments' = Catalog
    /\ origin' = [origin EXCEPT !["experiments"] = 104]
    /\ it' = 0
    /\ pc' = "F4_for"
    /\ UNCHANGED <<i, sim, res, entry, seaborn, sns, figsize, figure,
                   starting_guess, optimized_parameters, standard_errors,
                   true_params, discrepancy, k, stdout, table>>

\* In[4]: for i,e in enumerate(experiments): print(...).
F_LoopPrint ==
    /\ pc = "F4_for"
    /\ it < Len(experiments)
    /\ i' = it
    /\ it' = it + 1
    /\ origin' = [origin EXCEPT !["i"] = 118]
    /\ LET e == experiments[it + 1]
       IN  stdout' = Emit([text |-> "Experiment", i |-> it, T |-> e.T,
                           ran |-> e.times[Len(e.times)]])
    /\ pc' = "plot_start"
    /\ UNCHANGED <<sim, res, entry, seaborn, sns, figsize, experiments, figure,
                   starting_guess, optimized_parameters, standard_errors,
                   true_params, discrepancy, k, table>>

\* In[4]: the loop is exhausted; i keeps the last index.
F_LoopExit ==
    /\ pc = "F4_for"
    /\ it >= Len(experiments)
    /\ pc' = "F5"
    /\ UNCHANGED <<it, sim, res, entry, seaborn, sns, figsize, experiments, i, figure,
                   starting_guess, optimized_parameters, standard_errors,
                   true_params, discrepancy, k, origin, stdout, table>>

\* plot_experiment: plt.plot(0, e.cA_start, 'ko').
PlotStart ==
    /\ pc = "plot_start"
    /\ figure' = FigStart(figure, experiments[i + 1])
    /\ pc' = "plot_series"
    /\ UNCHANGED <<it, sim, res, entry, seaborn, sns, figsize, experiments, i,
                   starting_guess, optimized_parameters, standard_errors,
                   true_params, discrepancy, k, origin, stdout, table>>

\* A plot_experiment that rescales the observations in place before drawing
\* them (e.cA is a mutable numpy array).
PlotSeriesMutant ==
    /\ pc = "plot_series"
    /\ LET e == experiments[i + 1]
       IN  /\ figure' = FigSeries(figure, e)
           /\ experiments' = [experiments EXCEPT ![i + 1].cA =
                   [j \in 1..Len(e.cA) |-> e.cA[j] - e.cA[Len(e.cA)]]]
    /\ pc' = "plot_axes"
    /\ UNCHANGED <<it, sim, res, entry, seaborn, sns, figsize, i,
                   starting_guess, optimized_parameters, standard_errors,
                   true_params, discrepancy, k, origin, stdout, table>>

\* plot_experiment: plt.plot(e.times, e.cA, ':o', label="T={:.0f}K".format(e.T)).
PlotSeries ==
    /\ pc = "plot_series"
    /\ figure' = FigSeries(figure, experiments[i + 1])
    /\ pc' = "plot_axes"
    /\ UNCHANGED <<it, sim, res, entry, seaborn, sns, figsize, experiments, i,
                   starting_guess, optimized_parameters, standard_errors,
                   true_params, discrepancy, k, origin, stdout, table>>

\* plot_experiment: plt.ylim(0,); plt.ylabel(...); plt.xlabel(...).
PlotAxes ==
    /\ pc = "plot_axes"
    /\ figure' = FigAxes(figure)
    /\ pc' = "plot_legend"
    /\ UNCHANGED <<it, sim, res, entry, seaborn, sns, figsize, experiments, i,
                   starting_guess, optimized_parameters, standard_errors,
                   true_params, discrepancy, k, origin, stdout, table>>

\* plot_experiment: plt.legend(), then the loop's next iteration.
PlotLegend ==
    /\ pc = "plot_legend"
    /\ figure' = FigLegend(figure)
    /\ pc' = "F4_for"
    /\ UNCHANGED <<i, it, sim, res, entry, seaborn, sns, figsize, experiments,
                   starting_guess, optimized_parameters, standard_errors,
                   true_params, discrepancy, k, origin, stdout, table>>

\* In[5]: starting_guess = ParameterSet(logA = 6., Ea = 45., dH = -10., dS = -50.).
F_StartingGuess ==
    /\ pc = "F5"
    /\ starting_guess' = StartingGuess
    /\ origin' = [origin EXCEPT !["starting_guess"] = 128]
    /\ pc' = "F5_optimized"
    /\ UNCHANGED <<it, sim, res, entry, seaborn, sns, figsize, experiments, i, figure,
                   optimized_parameters, standard_errors,
                   true_params, discrepancy, k, stdout, table>>

\* In[5]: optimized_parameters = ParameterSet(0,0,0,0).
F_OptimizedParameters ==
    /\ pc = "F5_optimized"
    /\ optimized_parameters' = Placeholder
    /\ origin' = [origin EXCEPT !["optimized_parameters"] = 136]
    /\ pc' = "F5_errors"
    /\ UNCHANGED <<it, sim, res, entry, seaborn, sns, figsize, experiments, i, figure,
                   starting_guess, standard_errors,
                   true_params, discrepancy, k, stdout, table>>

\* In[5]: standard_errors = ParameterSet(0,0,0,0).  No cell follows between
\* this one and In[6].
F_StandardErrors ==
    /\ pc = "F5_errors"
    /\ standard_errors' = Placeholder
    /\ origin' = [origin EXCEPT !["standard_errors"] = 143]
    /\ pc' = "F6"
    /\ UNCHANGED <<it, sim, res, entry, seaborn, sns, figsize, experiments, i, figure,
                   starting_guess, optimized_parameters,
                   true_params, discrepancy, k, stdout, table>>

\* In[6]: print(starting_guess).
F_PrintGuess ==
    /\ pc = "F6"
    /\ stdout' = Emit([text |-> "ParameterSet", value |-> starting_guess])
    /\ pc' = "F6_optimized"
    /\ UNCHANGED <<it, sim, res, entry, seaborn, sns, figsize, experiments, i, figure,
                   starting_guess, optimized_parameters, standard_errors,
                   true_params, discrepancy, k, origin, table>>

\* In[6]: print(optimized_parameters).
F_PrintOptimized ==
    /\ pc = "F6_optimized"
    /\ stdout' = Emit([text |-> "ParameterSet", value |-> optimized_parameters])
    /\ pc' = "F6_errors"
    /\ UNCHANGED <<it, sim, res, entry, seaborn, sns, figsize, experiments, i, figure,
                   starting_guess, optimized_parameters, standard_errors,
                   true_params, discrepancy, k, origin, table>>

\* In[6]: print(standard_errors); the notebook ends, and Testing In[1]
\* returns to In[2] when it was the one that ran it.
F_PrintErrors ==
    /\ pc = "F6_errors"
    /\ stdout' = Emit([text |-> "ParameterSet", value |-> standard_errors])
    /\ pc' = IF entry = "Testing" THEN "T2" ELSE "done"
    /\ UNCHANGED <<it, sim, res, entry, seaborn, sns, figsize, experiments, i, figure,
                   starting_guess, optimized_parameters, standard_errors,
                   true_params, discrepancy, k, origin, table>>

----------------------------------------------------------------------------
(* Testing.  Its cells print outside the capture of In[1].                 *)

Display(line) == Append(stdout, line)

\* In[1]: %%capture, %run FittingExercise.ipynb.
T_RunFittingExercise ==
    /\ pc = "T1"
    /\ pc' = "F1"
    /\ UNCHANGED <<it, sim, res, entry, seaborn, sns, figsize, experiments, i, figure,
                   starting_guess, optimized_parameters, standard_errors,
                   true_params, discrepancy, k, origin, stdout, table>>

\* In[2]: true_params = ParameterSet(6.9, 49., -13., -42.).
T_TrueParams ==
    /\ pc = "T2"
    /\ true_params' = TrueParams
    /\ origin' = [origin EXCEPT !["true_params"] = 13]
    /\ pc' = "T2_print_guess"
    /\ UNCHANGED <<it, sim, res, entry, seaborn, sns, figsize, experiments, i, figure,
                   starting_guess, optimized_parameters, standard_errors,
                   discrepancy, k, stdout, table>>

\* In[2]: print("starting_guess =", starting_guess).
T_PrintGuess ==
    /\ pc = "T2_print_guess"
    /\ stdout' = Display([text |-> "starting_guess =", value |-> starting_guess])
    /\ pc' = "T2_print_optimized"
    /\ UNCHANGED <<it, sim, res, entry, seaborn, sns, figsize, experiments, i, figure,
                   starting_guess, optimized_parameters, standard_errors,
                   true_params, discrepancy, k, origin, table>>

\* In[2]: print("optimized_parameters =", optimized_parameters).
T_PrintOptimized ==
    /\ pc = "T2_print_optimized"
    /\ stdout' = Display([text |-> "optimized_parameters =",
                          value |-> optimized_parameters])
    /\ pc' = "T2_print_errors"
    /\ UNCHANGED <<it, sim, res, entry, seaborn, sns, figsize, experiments, i, figure,
                   starting_guess, optimized_parameters, standard_errors,
                   true_params, discrepancy, k, origin, table>>

\* In[2]: print("standard_errors =", standard_errors), and the heading
\* print("How many 'standard errors' ...").
T_PrintErrors ==
    /\ pc = "T2_print_errors"
    /\ stdout' = Append(Display([text |-> "standard_errors =",
                                 value |-> standard_errors]),
                        [text |-> "How many 'standard errors'"])
    /\ pc' = "T2_discrepancy"
    /\ UNCHANGED <<it, sim, res, entry, seaborn, sns, figsize, experiments, i, figure,
                   starting_guess, optimized_parameters, standard_errors,
                   true_params, discrepancy, k, origin, table>>

\* (The subtraction with its operands exchanged.)
DiscrepancyArrayMutant(opt, true, se) ==
    ArrayDiv(ArraySub(AsArray(true), AsArray(opt)), AsArray(se))

\* (array(optimized_parameters) - array(true_params)) / array(standard_errors)
DiscrepancyArray(opt, true, se) ==
    ArrayDiv(ArraySub(AsArray(opt), AsArray(true)), AsArray(se))

\* In[2]: discrepancy = (array(...) - array(...)) / array(...).
T_Discrepancy ==
    /\ pc = "T2_discrepancy"
    /\ discrepancy' = DiscrepancyArray(optimized_parameters, true_params,
                                       standard_errors)
    /\ origin' = [origin EXCEPT !["discrepancy"] = 24]
    /\ pc' = "T2_pack"
    /\ UNCHANGED <<it, sim, res, entry, seaborn, sns, figsize, experiments, i, figure,
                   starting_guess, optimized_parameters, standard_errors,
                   true_params, k, stdout, table>>

\* In[2]: discrepancy = ParameterSet(*discrepancy).
T_Pack ==
    /\ pc = "T2_pack"
    /\ discrepancy' = FromArray(discrepancy)
    /\ origin' = [origin EXCEPT !["discrepancy"] = 25]
    /\ k' = 0
    /\ pc' = "T2_for"
    /\ UNCHANGED <<it, sim, res, entry, seaborn, sns, figsize, experiments, i, figure,
                   starting_guess, optimized_parameters, standard_errors,
                   true_params, stdout, table>>

\* In[2]: for key,value in discrepancy._asdict().items(): print(key,value).
T_LoopPrint ==
    /\ pc = "T2_for"
    /\ k < Len(Items(discrepancy))
    /\ LET item == Items(discrepancy)[k + 1]
       IN  stdout' = Display([text |-> item[1], value |-> item[2]])
    /\ k' = k + 1
    /\ UNCHANGED <<it, sim, res, entry, seaborn, pc, sns, figsize, experiments, i, figure,
                   starting_guess, optimized_parameters, standard_errors,
                   true_params, discrepancy, origin, table>>

\* In[2]: the loop is exhausted.
T_LoopExit ==
    /\ pc = "T2_for"
    /\ k >= Len(Items(discrepancy))
    /\ pc' = "T3"
    /\ UNCHANGED <<it, sim, res, entry, seaborn, sns, figsize, experiments, i, figure,
                   starting_guess, optimized_parameters, standard_errors,
                   true_params, discrepancy, k, origin, stdout, table>>

TableIndex == <<"starting_guess", "true_params", "optimized_parameters",
                "standard_errors", "discrepancy">>

\* pd.DataFrame(rows, columns=starting_guess._fields, index=[...]).
DataFrame(rows, columns, index) ==
    [r \in 1..Len(rows) |->
        [index |-> index[r],
         cells |-> [c \in 1..Len(columns) |-> rows[r][columns[c]]]]]

\* In[3]: the table of the five parameter sets.
T_DataFrame ==
    /\ pc = "T3"
    /\ table' = DataFrame(<<starting_guess, true_params, optimized_parameters,
                            standard_errors, discrepancy>>, Fields, TableIndex)
    /\ pc' = "done"
    /\ UNCHANGED <<it, sim, res, entry, seaborn, sns, figsize, experiments, i, figure,
                   starting_guess, optimized_parameters, standard_errors,
                   true_params, discrepancy, k, origin, stdout>>

----------------------------------------------------------------------------
(* The run of either notebook as the repository has it.                    *)

Next ==
    \/ F_Imports \/ F_SeabornPresent \/ F_SeabornMissing \/ F_Define
    \/ F_Experiments \/ F_LoopPrint \/ F_LoopExit
    \/ PlotStart \/ PlotSeries \/ PlotAxes \/ PlotLegend
    \/ F_StartingGuess \/ F_OptimizedParameters \/ F_StandardErrors
    \/ F_PrintGuess \/ F_PrintOptimized \/ F_PrintErrors
    \/ T_RunFittingExercise \/ T_TrueParams
    \/ T_PrintGuess \/ T_PrintOptimized \/ T_PrintErrors
    \/ T_Discrepancy \/ T_Pack \/ T_LoopPrint \/ T_LoopExit \/ T_DataFrame

Spec == Init /\ [][Next]_vars

----------------------------------------------------------------------------
(* Testing In[2] and In[3] as a function of the values it reads.  The     *)
(* namespace is the one %run FittingExercise.ipynb leaves: every name      *)
(* bound by the statement that binds it in the repository,                 *)
(* optimized_parameters by line 136 and standard_errors by line 143.  The  *)
(* two values range over input sets that contain the repository's          *)
(* ParameterSet(0,0,0,0).                                                  *)

MaxDev == 1

MaxSE == 1

\* Fitted values: the placeholder 0, or within MaxDev units of the true value.
OptValues(f) == {0} \cup {TrueParams[f] + dev * 1000 : dev \in -MaxDev..MaxDev}

\* Standard errors: 0, 0.5, 1.0, ...
SEValues == {s * 500 : s \in 0..MaxSE}

InitTesting ==
    /\ entry = "Testing"
    /\ seaborn \in BOOLEAN
    /\ pc = "T2"
    /\ sns = IF seaborn THEN "module" ELSE "False"
    /\ figsize = IF seaborn THEN <<2, 2>> ELSE <<3, 3>>
    /\ experiments = Catalog
    /\ i = Len(Catalog) - 1
    /\ it = Len(Catalog)
    /\ figure = FigureAfter(Len(Catalog))
    /\ starting_guess = StartingGuess
    /\ optimized_parameters \in
           {ParameterSet(a, b, c, d) : a \in OptValues("logA"), b \in OptValues("Ea"),
                                       c \in OptValues("dH"), d \in OptValues("dS")}
    /\ standard_errors \in
           {ParameterSet(a, b, c, d) : a \in SEValues, b \in SEValues,
                                       c \in SEValues, d \in SEValues}
    /\ true_params = Placeholder
    /\ discrepancy = EmptyArray
    /\ k = 0
    /\ origin = [name \in {"experiments", "i", "starting_guess", "optimized_parameters",
                           "standard_errors", "true_params", "discrepancy"} |->
                    CASE name = "experiments" -> 104
                      [] name = "i" -> 118
                      [] name = "starting_guess" -> 128
                      [] name = "optimized_parameters" -> 136
                      [] name = "standard_errors" -> 143
                      [] OTHER -> 0]
    /\ stdout = <<>>
    /\ table = <<>>
    /\ sim = NoSim
    /\ res = NoRes

NextTesting ==
    \/ T_TrueParams
    \/ T_PrintGuess \/ T_PrintOptimized \/ T_PrintErrors
    \/ T_Discrepancy \/ T_Pack \/ T_LoopPrint \/ T_LoopExit \/ T_DataFrame

SpecTesting == InitTesting /\ [][NextTesting]_vars

----------------------------------------------------------------------------
(* Positions the claims speak of.                                          *)

\* FittingExercise In[6], the final report, is executing.
InFinalReport == pc \in {"F6", "F6_optimized", "F6_errors"}

\* Testing In[2] is about to read optimized_parameters and standard_errors.
TestingReads == pc \in {"T2_print_optimized", "T2_print_errors", "T2_discrepancy"}

\* discrepancy holds the ParameterSet of Testing line 25.
DiscrepancyPacked == origin["discrepancy"] = 25

FieldSet == {Fields[j] : j \in 1..Len(Fields)}

----------------------------------------------------------------------------
(* C1 *)

\* C1: when the final report is produced, each of the four standard errors
\* (logA, Ea, dH, dS) is a finite number strictly greater than 0.
C1_ReportedErrorsPositive ==
    InFinalReport => \A f \in FieldSet :
        standard_errors[f] \in Int /\ standard_errors[f] > 0

----------------------------------------------------------------------------
(* C2 *)

\* q is the IEEE quotient x / y: the exact fraction when y # 0, the signed
\* infinity (nan for x = 0) when y = 0.
IsQuotient(q, x, y) ==
    IF y # 0 THEN q.d > 0 /\ q.n * y = x * q.d
             ELSE q.d = 0 /\ q.n = Sign(x)

\* C2: for each field p in the order logA, Ea, dH, dS, discrepancy[p] is
\* (optimized_parameters[p] - true_params[p]) / standard_errors[p] with
\* true_params = (6.9, 49, -13, -42), packed back into field p.
C2_DiscrepancyPerField ==
    DiscrepancyPacked =>
        /\ true_params = ParameterSet(6900, 49000, -13000, -42000)
        /\ DOMAIN discrepancy = FieldSet
        /\ \A f \in FieldSet :
              IsQuotient(discrepancy[f],
                         optimized_parameters[f] - true_params[f],
                         standard_errors[f])

\* Testing has packed a discrepancy whose fields differ: logA finite and
\* negative, Ea finite and positive, dH infinite.
C2_Witness ==
    /\ DiscrepancyPacked
    /\ IsFinite(discrepancy.logA) /\ discrepancy.logA.n < 0
    /\ IsFinite(discrepancy.Ea) /\ discrepancy.Ea.n > 0
    /\ ~IsFinite(discrepancy.dH)

----------------------------------------------------------------------------
(* C3 *)

\* C3: once Testing has computed the discrepancy after FittingExercise has
\* run, each of the four discrepancies is a defined number of absolute value
\* below 2.
C3_DiscrepanciesWithinTwo ==
    DiscrepancyPacked => \A f \in FieldSet :
        IsFinite(discrepancy[f]) /\ Abs(discrepancy[f].n) < 2 * discrepancy[f].d

----------------------------------------------------------------------------
(* C5 *)

\* The lines of the displayed output that report optimized_parameters.
ReportedEstimates ==
    {j \in 1..Len(stdout) :
        /\ "value" \in DOMAIN stdout[j]
        /\ stdout[j].text \in {"ParameterSet", "optimized_parameters ="}
        /\ stdout[j].value = optimized_parameters}

\* C5: a result that no converged fit produced is reported only together
\* with a flag marking it unreliable, never in the form of a converged one.
C5_UnconvergedIsFlagged ==
    (pc = "done" /\ origin["optimized_parameters"] = 136) =>
        \A j \in ReportedEstimates : "unreliable" \in DOMAIN stdout[j]

----------------------------------------------------------------------------
(* C6 *)

\* C6: a standard error that was not derived from an invertible covariance
\* is reported as an undefined/infinite marker, never as a finite number
\* (0 included).
C6_NoCovarianceNoFiniteError ==
    (InFinalReport /\ origin["standard_errors"] = 143) =>
        \A f \in FieldSet : standard_errors[f] \notin Int

----------------------------------------------------------------------------
(* C7 *)

StrictlyIncreasing(seq) == \A j \in 1..(Len(seq) - 1) : seq[j] < seq[j + 1]

ValidRecord(e) ==
    /\ e.T > 0
    /\ e.cA_start >= 0
    /\ StrictlyIncreasing(e.times)
    /\ Len(e.times) > 0 /\ e.times[1] > 0
    /\ Len(e.cA) = Len(e.times)

\* C7: every record of the catalog has T > 0, cA_start >= 0, strictly
\* increasing times starting above 0 and as many observations as times; the
\* reference catalog is three records at 298.15, 308.15, 323.15 K in that
\* order, each with cA_start = 10.0, times 10, 20, ..., 100 and 10
\* observations.
C7_CatalogWellFormed ==
    origin["experiments"] # 0 =>
        /\ \A e \in 1..Len(experiments) : ValidRecord(experiments[e])
        /\ Len(experiments) = 3
        /\ [e \in 1..3 |-> experiments[e].T] = <<298150, 308150, 323150>>
        /\ \A e \in 1..3 :
              /\ experiments[e].cA_start = 10000
              /\ experiments[e].times = [j \in 1..10 |-> j * 10000]
              /\ Len(experiments[e].cA) = 10

\* The catalog has been created and plotted.
C7_Witness ==
    /\ origin["experiments"] = 104
    /\ pc = "F5"
    /\ Len(figure.legend) = 3

----------------------------------------------------------------------------
(* C8 *)

\* C8: once created, the catalog and starting_guess are changed by no later
\* step of either notebook.
C8_CatalogAndGuessFrozen ==
    [][ /\ origin["experiments"] # 0 => experiments' = experiments
        /\ origin["starting_guess"] # 0 => starting_guess' = starting_guess ]_vars

\* Testing has built its table, and the catalog and the guess are the
\* literals of FittingExercise.
C8_Witness ==
    /\ pc = "done" /\ entry = "Testing"
    /\ Len(table) = 5
    /\ experiments = Catalog
    /\ starting_guess = ParameterSet(6000, 45000, -10000, -50000)

----------------------------------------------------------------------------
(* C9 *)

\* C9: when the final report prints optimized_parameters and
\* standard_errors, and when Testing reads them, neither is the
\* ParameterSet(0,0,0,0) placeholder any more.
C9_NoPlaceholderAfterFit ==
    (InFinalReport \/ TestingReads) =>
        /\ optimized_parameters # ParameterSet(0, 0, 0, 0)
        /\ standard_errors # ParameterSet(0, 0, 0, 0)

----------------------------------------------------------------------------
(* The reactor model.  The header of FittingExercise states the rate law   *)
(* and the initial condition; the notebook holds no integrator, which is   *)
(* taken from the specification's section 4.2 and modelled as fixed-step   *)
(* explicit Euler steps that land exactly on each requested time.          *)
(* Concentrations in milli-mol/L, times in milliseconds, rate coefficients *)
(* in 1/100 per second.                                                    *)

MaxStep == 5000

MaxK == 3

RateValues == {r * 2 : r \in 0..MaxK}

\* r_A(net) = k_r C_B - k_f C_A.
NetRateA(kf, kr, cA, cB) == kr * cB - kf * cA

\* (The mass balance taken against the reference start concentration 10.0
\* instead of the simulated experiment's.)
ConcBMutant(cA_start, cA) == 10000 - cA

\* C_B = cA_start - C_A: no B at time zero, and A and B convert one to one.
ConcB(cA_start, cA) == cA_start - cA

Min(a, b) == IF a < b THEN a ELSE b

\* One Euler step of length h from concentration cA.
EulerStep(kf, kr, cA_start, cA, h) ==
    cA + (h * NetRateA(kf, kr, cA, ConcB(cA_start, cA))) \div 100000

\* C_A at time target, integrating from (t, cA).
RECURSIVE Advance(_, _, _, _, _, _)
Advance(kf, kr, cA_start, t, cA, target) ==
    IF t >= target THEN cA
    ELSE LET h == Min(MaxStep, target - t)
         IN  Advance(kf, kr, cA_start, t + h,
                     EulerStep(kf, kr, cA_start, cA, h), target)

RECURSIVE SimulateFrom(_, _, _, _, _, _, _)
SimulateFrom(kf, kr, cA_start, t, cA, times, j) ==
    IF j > Len(times) THEN <<>>
    ELSE LET c == Advance(kf, kr, cA_start, t, cA, times[j])
         IN  <<c>> \o SimulateFrom(kf, kr, cA_start, times[j], c, times, j + 1)

\* simulate: predicted C_A at each requested time, from C_A(0) = cA_start.
Simulate(kf, kr, cA_start, times) ==
    SimulateFrom(kf, kr, cA_start, 0, cA_start, times, 1)

\* Time grids: the catalog's, and one that is not uniform.
TimeGrids == {Times10, <<5000, 15000, 40000>>}

StartValues == {0, 5000, 10000}

InitReactor ==
    /\ entry = "FittingExercise" /\ seaborn = FALSE /\ pc = "F1"
    /\ FreshNamespace
    /\ res = NoRes
    /\ \E kf \in RateValues, kr \in RateValues, c0 \in StartValues, g \in TimeGrids :
          sim = [kf |-> kf, kr |-> kr, cA_start |-> c0, times |-> g,
                 t |-> 0, cA |-> c0, predicted |-> <<>>]

\* The integrator advances towards the next requested time.
SimStep ==
    /\ Len(sim.predicted) < Len(sim.times)
    /\ sim.t < sim.times[Len(sim.predicted) + 1]
    /\ LET h == Min(MaxStep, sim.times[Len(sim.predicted) + 1] - sim.t)
       IN  sim' = [sim EXCEPT !.t = @ + h,
                              !.cA = EulerStep(sim.kf, sim.kr, sim.cA_start, @, h)]
    /\ UNCHANGED <<entry, seaborn, pc, sns, figsize, experiments, i, it, figure,
                   starting_guess, optimized_parameters, standard_errors,
                   true_params, discrepancy, k, origin, stdout, table, res>>

\* The solution is read off at a requested time.
SimSample ==
    /\ Len(sim.predicted) < Len(sim.times)
    /\ sim.t >= sim.times[Len(sim.predicted) + 1]
    /\ sim' = [sim EXCEPT !.predicted = Append(@, sim.cA)]
    /\ UNCHANGED <<entry, seaborn, pc, sns, figsize, experiments, i, it, figure,
                   starting_guess, optimized_parameters, standard_errors,
                   true_params, discrepancy, k, origin, stdout, table, res>>

NextReactor == SimStep \/ SimSample

SpecReactor == InitReactor /\ [][NextReactor]_vars

SimDone == Len(sim.predicted) = Len(sim.times) /\ Len(sim.times) > 0

\* C10: started from cA_start = 0 (and C_B(0) = 0), the predicted C_A is 0 at
\* every requested time, for any non-negative rate coefficients kf and kr.
C10_ZeroStartStaysZero ==
    sim.cA_start = 0 =>
        \A j \in 1..Len(sim.predicted) : sim.predicted[j] = 0

\* A simulation from cA_start = 0 with both reactions active has delivered
\* all ten points of the catalog's grid.
C10_Witness ==
    /\ SimDone
    /\ sim.cA_start = 0 /\ sim.kf > 0 /\ sim.kr > 0
    /\ Len(sim.predicted) = 10

----------------------------------------------------------------------------
(* The residual engine of the specification's section 4.3, with the        *)
(* per-experiment evaluations of section 5 completing in any order.  The   *)
(* notebook holds no residual function; the catalog it stacks over is the  *)
(* notebook's.                                                             *)

\* The first n time points of a record.
Truncated(e, n) ==
    ExperimentData(e.T, e.cA_start, SubSeq(e.times, 1, n), SubSeq(e.cA, 1, n))

\* A catalog whose records differ in length.
ShortCatalog ==
    <<Truncated(Catalog[1], 2), Truncated(Catalog[2], 3), Truncated(Catalog[3], 1)>>

\* (kf, kr) of an experiment, in place of the Arrhenius evaluation.
RatePairs == {<<2, 2>>, <<6, 4>>}

\* predicted[j] - observed[j] over the time points of one experiment.
ExperimentResiduals(pred, e) == [j \in 1..Len(e.times) |-> pred[j] - e.cA[j]]

\* Number of time points of the experiments before e, in catalog order.
RECURSIVE Offset(_, _)
Offset(exps, e) ==
    IF e <= 1 THEN 0 ELSE Offset(exps, e - 1) + Len(exps[e - 1].times)

\* The slots named by order, concatenated.
RECURSIVE Concat(_, _)
Concat(slots, order) ==
    IF order = <<>> THEN <<>> ELSE slots[Head(order)] \o Concat(slots, Tail(order))

\* (Results appended as the evaluations complete.)
GatherMutant(slots, completed) == Concat(slots, completed)

\* The per-experiment results concatenated in catalog order, whatever the
\* order they completed in.
Gather(slots, completed) == Concat(slots, [e \in 1..Len(slots) |-> e])

InitResiduals ==
    /\ entry = "FittingExercise" /\ seaborn = FALSE /\ pc = "F1"
    /\ FreshNamespace
    /\ sim = NoSim
    /\ \E exps \in {Catalog, ShortCatalog} :
       \E rates \in [1..Len(exps) -> RatePairs] :
          res = [experiments |-> exps,
                 predicted |-> [e \in 1..Len(exps) |->
                     Simulate(rates[e][1], rates[e][2], exps[e].cA_start,
                              exps[e].times)],
                 pending |-> 1..Len(exps),
                 completed |-> <<>>,
                 slots |-> [e \in 1..Len(exps) |-> <<>>],
                 gathered |-> FALSE,
                 vector |-> <<>>]

\* The evaluation of experiment e completes.
Evaluate(e) ==
    /\ e \in res.pending
    /\ res' = [res EXCEPT
           !.pending = @ \ {e},
           !.completed = Append(@, e),
           !.slots[e] = ExperimentResiduals(res.predicted[e], res.experiments[e])]
    /\ UNCHANGED <<entry, seaborn, pc, sns, figsize, experiments, i, it, figure,
                   starting_guess, optimized_parameters, standard_errors,
                   true_params, discrepancy, k, origin, stdout, table, sim>>

\* All evaluations are in: the residual vector is assembled.
GatherResiduals ==
    /\ res.pending = {}
    /\ ~res.gathered
    /\ res' = [res EXCEPT !.gathered = TRUE,
                          !.vector = Gather(res.slots, res.completed)]
    /\ UNCHANGED <<entry, seaborn, pc, sns, figsize, experiments, i, it, figure,
                   starting_guess, optimized_parameters, standard_errors,
                   true_params, discrepancy, k, origin, stdout, table, sim>>

NextResiduals ==
    \/ \E e \in 1..Len(res.experiments) : Evaluate(e)
    \/ GatherResiduals

SpecResiduals == InitResiduals /\ [][NextResiduals]_vars

\* C4: the residual vector has as many entries as the experiments have time
\* points (30 for the reference catalog); the entry of experiment e and time
\* index j is predicted[e][j] - observed[e][j] and sits at position
\* (time points of the experiments before e) + j, whatever the order in which
\* the per-experiment evaluations completed.
C4_ResidualIndexMapping ==
    res.gathered =>
        LET exps == res.experiments
            n == Len(exps)
        IN  /\ Len(res.vector) = Offset(exps, n + 1)
            /\ exps = Catalog => Len(res.vector) = 30
            /\ \A e \in 1..n : \A j \in 1..Len(exps[e].times) :
                  res.vector[Offset(exps, e) + j] =
                      res.predicted[e][j] - exps[e].cA[j]

\* The vector of the reference catalog has been assembled from evaluations
\* that completed out of catalog order.
C4_Witness ==
    /\ res.gathered
    /\ res.experiments = Catalog
    /\ res.completed = <<3, 1, 2>>
    /\ res.vector[11] # res.vector[1]

====
